---- MODULE Spec2Model ----
(***************************************************************************)
(* Model of google-github-actions/get-gke-credentials: the ClusterClient   *)
(* (src/src/client.ts) and the run() orchestration (main.ts).              *)
(*                                                                         *)
(* Strings are TLA+ strings; TLC evaluates Len, SubSeq, Head, Tail and \o  *)
(* on them, so trimming, suffix tests and template literals are computed   *)
(* character by character as the JavaScript does.  An optional value       *)
(* (T | undefined) is a sequence of length at most one: <<>> is undefined. *)
(***************************************************************************)
EXTENDS Integers, Sequences, FiniteSets, TLC

VARIABLES
  pc,        \* position of the running call (between two awaits)
  inputs,    \* the arguments of the call / the action inputs of the run
  client,    \* the ClusterClient's private fields #projectID, #location
  calls,     \* every outbound request issued so far, in order
  inflight,  \* requests issued and not yet settled
  locals,    \* local variables that live across an await
  files,     \* files written to disk
  env,       \* variables exported with exportVariable
  outputs,   \* outputs set with setOutput
  failures,  \* messages passed to setFailed
  ret        \* settled result of a directly called client method

vars == <<pc, inputs, client, calls, inflight, locals, files, env, outputs, failures, ret>>

----------------------------------------------------------------------------
(* Optional values and results of calls that may throw.                    *)

None == <<>>
Some(v) == <<v>>
IsSome(o) == Len(o) = 1
Get(o) == o[1]

Ok(v) == [ok |-> TRUE, val |-> v]
Err(m) == [ok |-> FALSE, err |-> m]

----------------------------------------------------------------------------
(* String primitives of the JavaScript runtime.                            *)

IsSpace(c) == c \in {" ", "\t", "\n", "\r"}

RECURSIVE trimStart(_)
trimStart(s) ==
  IF Len(s) = 0 THEN s
  ELSE IF IsSpace(Head(s)) THEN trimStart(Tail(s)) ELSE s

RECURSIVE trimEnd(_)
trimEnd(s) ==
  IF Len(s) = 0 THEN s
  ELSE IF IsSpace(SubSeq(s, Len(s), Len(s)))
       THEN trimEnd(SubSeq(s, 1, Len(s) - 1))
       ELSE s

\* String.prototype.trim
trim(s) == trimEnd(trimStart(s))

\* String.prototype.endsWith
endsWith(s, suffix) ==
  /\ Len(s) >= Len(suffix)
  /\ SubSeq(s, Len(s) - Len(suffix) + 1, Len(s)) = suffix

\* String.prototype.includes
includes(s, sub) ==
  \E i \in 1..(Len(s) - Len(sub) + 1) : SubSeq(s, i, i + Len(sub) - 1) = sub

\* presence() of actions-utils: (input || '').trim() || undefined
presence(o) ==
  LET t == trim(IF IsSome(o) THEN Get(o) ELSE "")
  IN IF t = "" THEN None ELSE Some(t)

----------------------------------------------------------------------------
(* Resource names: the two regular expressions and the parsers.            *)

toLowerChar(c) ==
  CASE c = "A" -> "a" [] c = "B" -> "b" [] c = "C" -> "c" [] c = "D" -> "d"
    [] c = "E" -> "e" [] c = "F" -> "f" [] c = "G" -> "g" [] c = "H" -> "h"
    [] c = "I" -> "i" [] c = "J" -> "j" [] c = "K" -> "k" [] c = "L" -> "l"
    [] c = "M" -> "m" [] c = "N" -> "n" [] c = "O" -> "o" [] c = "P" -> "p"
    [] c = "Q" -> "q" [] c = "R" -> "r" [] c = "S" -> "s" [] c = "T" -> "t"
    [] c = "U" -> "u" [] c = "V" -> "v" [] c = "W" -> "w" [] c = "X" -> "x"
    [] c = "Y" -> "y" [] c = "Z" -> "z" [] OTHER -> c

RECURSIVE toLowerCase(_)
toLowerCase(s) ==
  IF Len(s) = 0 THEN s ELSE toLowerChar(Head(s)) \o toLowerCase(Tail(s))

\* the literal `lit` of a /i pattern matches s at position i (1-based)
LiteralAt(s, i, lit) ==
  /\ i + Len(lit) - 1 <= Len(s)
  /\ toLowerChar(SubSeq(s, i, i)) = Head(lit)
  /\ toLowerCase(SubSeq(s, i, i + Len(lit) - 1)) = lit

\* (.+) : one or more characters, none of them a line terminator
DotPlus(g) ==
  /\ Len(g) >= 1
  /\ \A i \in 1..Len(g) : SubSeq(g, i, i) \notin {"\n", "\r"}

Max(S) == CHOOSE x \in S : \A y \in S : y <= x

\* String.prototype.match against /^projects\/(.+)\/locations\/(.+)\/<c>\/(.+)$/i
\* where <c> is one of `collections`.  a is the last index of group 1 and b
\* the last index of group 2; both groups are greedy, the first one first.
\* The result is None (null) or the three captured groups.
matchResourceName(s, collections) ==
  LET p1 == "projects/"
      p2 == "/locations/"
      P3 == {"/" \o c \o "/" : c \in collections}
      B(a) == { b \in (a + Len(p2) + 1)..Len(s) :
                  /\ \E p3 \in P3 : /\ LiteralAt(s, b + 1, p3)
                                    /\ DotPlus(SubSeq(s, b + Len(p3) + 1, Len(s)))
                  /\ DotPlus(SubSeq(s, a + Len(p2) + 1, b)) }
      A == IF ~LiteralAt(s, 1, p1) THEN {}
           ELSE { a \in (Len(p1) + 1)..Len(s) :
                    /\ LiteralAt(s, a + 1, p2)
                    /\ DotPlus(SubSeq(s, Len(p1) + 1, a))
                    /\ B(a) # {} }
  IN IF A = {} THEN None
     ELSE LET a == Max(A)
              b == Max(B(a))
              p3 == CHOOSE q \in P3 : LiteralAt(s, b + 1, q)
          IN Some(<< SubSeq(s, Len(p1) + 1, a),
                     SubSeq(s, a + Len(p2) + 1, b),
                     SubSeq(s, b + Len(p3) + 1, Len(s)) >>)

\* clusterResourceNamePattern
clusterResourceNamePattern(s) == matchResourceName(s, {"clusters"})

\* Mutant of membershipResourceNamePattern: only the memberships collection
\* is accepted.
membershipResourceNamePatternOnly(s) == matchResourceName(s, {"memberships"})

\* membershipResourceNamePattern
membershipResourceNamePattern(s) == matchResourceName(s, {"gkememberships", "memberships"})

\* Mutant of parseResourceName: the name is tested trimmed and returned as
\* it was passed.
parseResourceNameUntrimmed(raw) ==
  LET name == trim(raw)
      matches == clusterResourceNamePattern(name)
  IN IF name = "" THEN Err("Failed to parse cluster name: value is the empty string")
     ELSE IF ~includes(name, "/") THEN Ok([projectID |-> "", location |-> "", id |-> raw])
     ELSE IF ~IsSome(matches)
          THEN Err("Failed to parse cluster name \"" \o name \o "\": invalid pattern")
          ELSE Ok([projectID |-> Get(matches)[1], location |-> Get(matches)[2], id |-> Get(matches)[3]])

\* ClusterClient.parseResourceName
parseResourceName(raw) ==
  LET name == trim(raw)
      matches == clusterResourceNamePattern(name)
  IN IF name = "" THEN Err("Failed to parse cluster name: value is the empty string")
     ELSE IF ~includes(name, "/") THEN Ok([projectID |-> "", location |-> "", id |-> name])
     ELSE IF ~IsSome(matches)
          THEN Err("Failed to parse cluster name \"" \o name \o "\": invalid pattern")
          ELSE Ok([projectID |-> Get(matches)[1], location |-> Get(matches)[2], id |-> Get(matches)[3]])

\* Mutant of parseMembershipName: an empty name parses to an all-empty
\* record.
parseMembershipNameDefault(raw) ==
  LET name == trim(raw)
      matches == membershipResourceNamePattern(name)
  IN IF name = "" THEN Ok([projectID |-> "", location |-> "", membershipName |-> ""])
     ELSE IF ~IsSome(matches)
          THEN Err("Failed to parse membership name \"" \o name \o "\": invalid pattern")
          ELSE Ok([projectID |-> Get(matches)[1], location |-> Get(matches)[2],
                   membershipName |-> Get(matches)[3]])

\* ClusterClient.parseMembershipName
parseMembershipName(raw) ==
  LET name == trim(raw)
      matches == membershipResourceNamePattern(name)
  IN IF name = "" THEN Err("Failed to parse membership name: membership name cannot be empty")
     ELSE IF ~IsSome(matches)
          THEN Err("Failed to parse membership name \"" \o name \o "\": invalid pattern. Should be of form projects/PROJECT_ID/locations/LOCATION/gkeMemberships/MEMBERSHIP_NAME or projects/PROJECT_ID/locations/LOCATION/memberships/MEMBERSHIP_NAME")
          ELSE Ok([projectID |-> Get(matches)[1], location |-> Get(matches)[2],
                   membershipName |-> Get(matches)[3]])

\* a private field that is undefined or the empty string is falsy
Truthy(o) == IsSome(o) /\ Get(o) # ""

\* Mutant of getResource: the location is not tested.
getResourceAnyLocation(c, raw) ==
  LET name == trim(raw)
  IN IF name = "" THEN Err("Failed to parse cluster name: name cannot be empty")
     ELSE IF includes(name, "/")
          THEN IF IsSome(clusterResourceNamePattern(name)) THEN Ok(name)
               ELSE Err("Invalid cluster name \"" \o name \o "\"")
     ELSE IF ~Truthy(c.projectID)
          THEN Err("Failed to get project ID to build cluster name. Try setting \"project_id\".")
     ELSE Ok("projects/" \o Get(c.projectID) \o "/locations/"
             \o (IF IsSome(c.location) THEN Get(c.location) ELSE "")
             \o "/clusters/" \o name)

\* ClusterClient.getResource on a client with fields c
getResource(c, raw) ==
  LET name == trim(raw)
  IN IF name = "" THEN Err("Failed to parse cluster name: name cannot be empty")
     ELSE IF includes(name, "/")
          THEN IF IsSome(clusterResourceNamePattern(name)) THEN Ok(name)
               ELSE Err("Invalid cluster name \"" \o name \o "\"")
     ELSE IF ~Truthy(c.projectID)
          THEN Err("Failed to get project ID to build cluster name. Try setting \"project_id\".")
     ELSE IF ~Truthy(c.location)
          THEN Err("Failed to get location (region/zone) to build cluster name. Try setting \"location\".")
     ELSE Ok("projects/" \o Get(c.projectID) \o "/locations/" \o Get(c.location)
             \o "/clusters/" \o name)

----------------------------------------------------------------------------
(* ClusterClient: requests, cluster lookup, fleet membership, project      *)
(* number.  Each method is split at its awaits: the operator named after   *)
(* the method is what it computes from the settled response.               *)

defaultEndpoint == "https://container.googleapis.com/v1"
hubEndpoint == "https://gkehub.googleapis.com/v1"
cloudResourceManagerEndpoint == "https://cloudresourcemanager.googleapis.com/v3"
connectGatewayHostPath == "connectgateway.googleapis.com/v1"

\* Mutant of Request: the retry option is left out.
RequestNoRetry(api, url) == [api |-> api, url |-> url, retry |-> FALSE]

\* ClusterClient.request: the options handed to auth.request
Request(api, url) == [api |-> api, url |-> url, retry |-> TRUE]

\* getCluster up to its await: the URL it requests, or the error it throws
getClusterURL(c, clusterName) ==
  LET r == getResource(c, clusterName)
  IN IF r.ok THEN Ok(defaultEndpoint \o "/" \o r.val) ELSE r

\* Mutant of discoverURL: the project ID is not tested.
discoverURLAnyProject(c, clusterName) ==
  LET r == getResource(c, clusterName)
  IN IF ~r.ok THEN r
     ELSE Ok(hubEndpoint \o "/projects/" \o (IF IsSome(c.projectID) THEN Get(c.projectID) ELSE "undefined")
             \o "/locations/global/memberships?filter=endpoint.gkeCluster.resourceLink=\""
             \o "//container.googleapis.com/" \o r.val \o "\"")

\* discoverClusterMembership up to its await
discoverURL(c, clusterName) ==
  LET r == getResource(c, clusterName)
  IN IF ~r.ok THEN r
     ELSE IF ~Truthy(c.projectID)
          THEN Err("Failed to get project ID for cluster membership discovery. Try setting \"project_id\".")
     ELSE Ok(hubEndpoint \o "/projects/" \o Get(c.projectID)
             \o "/locations/global/memberships?filter=endpoint.gkeCluster.resourceLink=\""
             \o "//container.googleapis.com/" \o r.val \o "\"")

\* Array.prototype.join(',') over the names of the memberships
RECURSIVE joinNames(_)
joinNames(ms) ==
  IF Len(ms) = 0 THEN ""
  ELSE IF Len(ms) = 1 THEN ms[1].name
  ELSE ms[1].name \o "," \o joinNames(Tail(ms))

\* Mutant of discoverClusterMembership: with several candidates the first
\* one is taken.
discoverClusterMembershipFirst(c, clusterName, resources) ==
  IF ~IsSome(resources) \/ Len(Get(resources)) < 1
  THEN Err("Expected one membership for " \o clusterName \o " in " \o Get(c.projectID) \o ". "
           \o "Found none. Verify membership by running 'gcloud container fleet memberships list --project "
           \o Get(c.projectID) \o "'")
  ELSE Ok(Get(resources)[1].name)

\* discoverClusterMembership after its await: resources is resp.resources
\* (the backquotes of the messages are written as single quotes)
discoverClusterMembership(c, clusterName, resources) ==
  LET projectID == Get(c.projectID)
  IN IF ~IsSome(resources) \/ Len(Get(resources)) < 1
     THEN Err("Expected one membership for " \o clusterName \o " in " \o projectID \o ". "
              \o "Found none. Verify membership by running 'gcloud container fleet memberships list --project "
              \o projectID \o "'")
     ELSE IF Len(Get(resources)) > 1
     THEN Err("Expected one membership for " \o clusterName \o " in " \o projectID \o ". "
              \o "Found multiple memberships " \o joinNames(Get(resources))
              \o ". Provide an explicit membership via 'fleet_membership' input.")
     ELSE Ok(Get(resources)[1].name)

\* String.prototype.replace(pattern, '') with a string pattern: the first
\* occurrence only
replaceFirst(s, pat) ==
  IF ~includes(s, pat) THEN s
  ELSE LET i == CHOOSE k \in 1..(Len(s) - Len(pat) + 1) :
                   /\ SubSeq(s, k, k + Len(pat) - 1) = pat
                   /\ \A j \in 1..(k - 1) : SubSeq(s, j, j + Len(pat) - 1) # pat
       IN SubSeq(s, 1, i - 1) \o SubSeq(s, i + Len(pat), Len(s))

\* projectIDtoNum: the URL, and the result computed from resp.name
projectURL(projectID) == cloudResourceManagerEndpoint \o "/projects/" \o projectID

projectIDtoNum(projectRef) ==
  LET projectNum == replaceFirst(projectRef, "projects/")
  IN IF ~includes(projectRef, "projects/") \/ projectNum = ""
     THEN Err("Failed to parse project number: expected format projects/PROJECT_NUMBER. Got "
              \o projectRef)
     ELSE Ok(projectNum)

\* getConnectGWEndpoint: the membership URL
membershipURL(name) == hubEndpoint \o "/" \o name

\* Mutant of membershipLookup: the collection is the one the name of the
\* fetched record carries.
membershipLookupByName(name, membership) ==
  IF ~IsSome(membership) THEN Err("Failed to lookup membership: " \o name)
  ELSE LET parsed == parseMembershipName(Get(membership).name)
       IN IF ~parsed.ok THEN parsed
          ELSE Ok([ collection |-> IF includes(toLowerCase(Get(membership).name), "/gkememberships/")
                                   THEN "gkeMemberships" ELSE "memberships",
                    membershipName |-> parsed.val ])

\* getConnectGWEndpoint between the membership response and the project
\* lookup: membership is the response body (None when it is empty)
membershipLookup(name, membership) ==
  IF ~IsSome(membership) THEN Err("Failed to lookup membership: " \o name)
  ELSE LET parsed == parseMembershipName(Get(membership).name)
       IN IF ~parsed.ok THEN parsed
          ELSE Ok([ collection |-> IF Get(membership).gkeCluster THEN "gkeMemberships"
                                   ELSE "memberships",
                    membershipName |-> parsed.val ])

\* getConnectGWEndpoint: the returned endpoint
connectGWEndpoint(projectNumber, looked) ==
  connectGatewayHostPath \o "/projects/" \o projectNumber
  \o "/locations/" \o looked.membershipName.location
  \o "/" \o looked.collection \o "/" \o looked.membershipName.membershipName

----------------------------------------------------------------------------
(* ClusterClient.getToken and ClusterClient.createKubeConfig.              *)

\* What auth.getAccessToken() can settle to: a token, null/undefined, the
\* empty string, or a rejection.
TokenOutcomes ==
  { Ok(Some("ya29.tok")), Ok(Some("")), Ok(None), Err("could not load the default credentials") }

\* getToken: the part after `await this.auth.getAccessToken()`.
getToken(outcome) ==
  IF ~outcome.ok THEN Err(outcome.err)
  ELSE IF ~IsSome(outcome.val) \/ Get(outcome.val) = "" THEN Err("Failed to generate token.")
  ELSE Ok(Get(outcome.val))

\* The request record handed to the credential library for a token.
TokenCall == [api |-> "token", url |-> "", retry |-> FALSE]

\* Mutant of selectEndpoint: the internal-IP test moved after the DNS test.
selectEndpointInternalLast(opts) ==
  LET cluster == opts.clusterData
      connectGatewayEndpoint == presence(opts.connectGWEndpoint)
      e1 == IF IsSome(connectGatewayEndpoint) THEN Get(connectGatewayEndpoint) ELSE cluster.endpoint
      e2 == IF opts.useDNSBasedEndpoint
            THEN cluster.controlPlaneEndpointsConfig.dnsEndpointConfig.endpoint
            ELSE e1
  IN IF opts.useInternalIP THEN cluster.privateClusterConfig.privateEndpoint ELSE e2

\* Mutant of selectEndpoint: the useDNSBasedEndpoint option is never read.
selectEndpointNoDNS(opts) ==
  LET cluster == opts.clusterData
      connectGatewayEndpoint == presence(opts.connectGWEndpoint)
      e1 == IF IsSome(connectGatewayEndpoint) THEN Get(connectGatewayEndpoint) ELSE cluster.endpoint
  IN IF opts.useInternalIP THEN cluster.privateClusterConfig.privateEndpoint ELSE e1

\* createKubeConfig, endpoint selection: three independent `if`s, the later
\* assignment overwriting the earlier one.
selectEndpoint(opts) ==
  LET cluster == opts.clusterData
      connectGatewayEndpoint == presence(opts.connectGWEndpoint)
      e0 == cluster.endpoint
      e1 == IF IsSome(connectGatewayEndpoint) THEN Get(connectGatewayEndpoint) ELSE e0
      e2 == IF opts.useInternalIP THEN cluster.privateClusterConfig.privateEndpoint ELSE e1
      e3 == IF opts.useDNSBasedEndpoint
            THEN cluster.controlPlaneEndpointsConfig.dnsEndpointConfig.endpoint
            ELSE e2
  IN e3

\* Mutant of useCACert: the "gke.goog" suffix test is dropped.
useCACertNoSuffix(opts, endpoint) ==
  ~( \/ IsSome(presence(opts.connectGWEndpoint))
     \/ opts.useDNSBasedEndpoint )

\* createKubeConfig, the useCACert flag.
useCACert(opts, endpoint) ==
  ~( \/ IsSome(presence(opts.connectGWEndpoint))
     \/ opts.useDNSBasedEndpoint
     \/ endsWith(endpoint, "gke.goog") )

\* Mutant of authStanza: the token is written next to the auth-provider.
authStanzaBoth(opts, token) ==
  IF opts.useAuthProvider
  THEN ("auth-provider" :> Some([name |-> "gcp"])) @@ ("token" :> Some(token))
  ELSE ("token" :> Some(token))

\* createKubeConfig, the auth stanza: the `user` mapping.
authStanza(opts, token) ==
  IF opts.useAuthProvider
  THEN ("auth-provider" :> Some([name |-> "gcp"]))
  ELSE ("token" :> Some(token))

\* createKubeConfig, the `cluster` mapping of clusters[0] as a JavaScript
\* object: a key may be present with the value undefined.
clusterEntry(opts, endpoint) ==
  LET server == ("server" :> Some("https://" \o endpoint))
  IN IF useCACert(opts, endpoint)
     THEN ("certificate-authority-data" :> Some(opts.clusterData.masterAuth.clusterCaCertificate))
          @@ server
     ELSE server

\* Mutant of contextEntry: namespace: opts.namespace || ''
contextEntryDefaultEmpty(opts) ==
  ("cluster" :> Some(opts.clusterData.name))
  @@ ("user" :> Some(opts.clusterData.name))
  @@ ("namespace" :> (IF IsSome(opts.namespace) THEN opts.namespace ELSE Some("")))

\* createKubeConfig, the `context` mapping of contexts[0].
contextEntry(opts) ==
  ("cluster" :> Some(opts.clusterData.name))
  @@ ("user" :> Some(opts.clusterData.name))
  @@ ("namespace" :> opts.namespace)

\* YAML.stringify on a mapping: a key whose value is undefined is left out
\* (keepUndefined is false by default); every other key is written.
YAMLstringify(m) == [k \in {j \in DOMAIN m : IsSome(m[j])} |-> Get(m[k])]

\* Mutant of kubeConfig: the user entry is named after the context.
kubeConfigUserByContext(opts, endpoint, token) ==
  ("apiVersion" :> "v1")
  @@ ("clusters" :> << [cluster |-> YAMLstringify(clusterEntry(opts, endpoint)),
                        name |-> opts.clusterData.name] >>)
  @@ ("contexts" :> << [context |-> YAMLstringify(contextEntry(opts)),
                        name |-> opts.contextName] >>)
  @@ ("kind" :> "Config")
  @@ ("current-context" :> opts.contextName)
  @@ ("users" :> << [name |-> opts.contextName,
                     user |-> YAMLstringify(authStanza(opts, token))] >>)

\* createKubeConfig, from the token to the returned document.  The document
\* is the structure a YAML parser reads back from the returned text.
kubeConfig(opts, endpoint, token) ==
  ("apiVersion" :> "v1")
  @@ ("clusters" :> << [cluster |-> YAMLstringify(clusterEntry(opts, endpoint)),
                        name |-> opts.clusterData.name] >>)
  @@ ("contexts" :> << [context |-> YAMLstringify(contextEntry(opts)),
                        name |-> opts.contextName] >>)
  @@ ("kind" :> "Config")
  @@ ("current-context" :> opts.contextName)
  @@ ("users" :> << [name |-> opts.clusterData.name,
                     user |-> YAMLstringify(authStanza(opts, token))] >>)

----------------------------------------------------------------------------
(* Direct calls of createKubeConfig (the unit under tests/client.test.ts). *)

\* Cluster records of type ClusterResponse.
Cluster(name, endpoint, ca, privateEndpoint, dnsEndpoint) ==
  [ name |-> name,
    endpoint |-> endpoint,
    masterAuth |-> [clusterCaCertificate |-> ca],
    privateClusterConfig |-> [privateEndpoint |-> privateEndpoint],
    controlPlaneEndpointsConfig |-> [dnsEndpointConfig |-> [endpoint |-> dnsEndpoint]] ]

publicCluster == Cluster("public-cluster", "public-endpoint", "foo", "", "gke-1.us.gke.goog")
privateCluster == Cluster("private-cluster", "", "foo", "private-endpoint", "gke-1.us.gke.goog")
\* a cluster whose public endpoint is itself a DNS name under gke.goog and
\* whose DNS endpoint is served under another suffix
dnsNamedCluster == Cluster("dns-cluster", "pub.gke.goog", "bar", "10.0.0.2", "cp.example.com")

Clusters == {publicCluster, privateCluster, dnsNamedCluster}

GatewayEndpoints == {None, Some(""), Some("  "), Some(" gw-ep"), Some("connectgateway.googleapis.com/v1/projects/1/locations/l/gkeMemberships/m")}
Namespaces == {None, Some(""), Some(" "), Some("my-namespace")}

KubeOpts ==
  [ useAuthProvider : BOOLEAN,
    useInternalIP : BOOLEAN,
    useDNSBasedEndpoint : BOOLEAN,
    clusterData : Clusters,
    connectGWEndpoint : GatewayEndpoints,
    contextName : {"ctx1"},
    namespace : Namespaces ]

NoClient == [projectID |-> None, location |-> None]

InitKube ==
  /\ pc = "createKubeConfig"
  /\ inputs \in KubeOpts
  /\ client = NoClient
  /\ calls = <<>>
  /\ inflight = {}
  /\ locals = [endpoint |-> ""]
  /\ files = {}
  /\ env = <<>>
  /\ outputs = <<>>
  /\ failures = <<>>
  /\ ret = None

\* issue a request: it is appended to the log and is in flight until settled
Issue(call) ==
  /\ calls' = Append(calls, call)
  /\ inflight' = inflight \cup {Len(calls) + 1}

Settle == inflight' = {}

\* createKubeConfig up to `await this.getToken()`
KubeStart ==
  /\ pc = "createKubeConfig"
  /\ locals' = [endpoint |-> selectEndpoint(inputs)]
  /\ Issue(TokenCall)
  /\ pc' = "awaitToken"
  /\ UNCHANGED <<inputs, client, files, env, outputs, failures, ret>>

\* the token is minted: the document is assembled and returned
KubeReturn ==
  /\ pc = "awaitToken"
  /\ \E out \in TokenOutcomes :
       /\ getToken(out).ok
       /\ ret' = Some(Ok(kubeConfig(inputs, locals.endpoint, getToken(out).val)))
  /\ Settle
  /\ pc' = "done"
  /\ UNCHANGED <<inputs, client, calls, locals, files, env, outputs, failures>>

\* getToken throws: createKubeConfig rejects
KubeThrow ==
  /\ pc = "awaitToken"
  /\ \E out \in TokenOutcomes :
       /\ ~getToken(out).ok
       /\ ret' = Some(Err(getToken(out).err))
  /\ Settle
  /\ pc' = "done"
  /\ UNCHANGED <<inputs, client, calls, locals, files, env, outputs, failures>>

NextKube == KubeStart \/ KubeReturn \/ KubeThrow

SpecKube == InitKube /\ [][NextKube]_vars

\* the document of a settled, successful createKubeConfig call
Returned == pc = "done" /\ IsSome(ret) /\ Get(ret).ok
Doc == Get(ret).val
Gateway == presence(inputs.connectGWEndpoint)

ClusterMap == Doc.clusters[1].cluster
Server == ClusterMap["server"]
HasCA == "certificate-authority-data" \in DOMAIN ClusterMap
UserMap == Doc.users[1].user
ContextMap == Doc.contexts[1].context
PrivateEndpoint == inputs.clusterData.privateClusterConfig.privateEndpoint
DNSEndpoint == inputs.clusterData.controlPlaneEndpointsConfig.dnsEndpointConfig.endpoint

----------------------------------------------------------------------------
(* Claims about createKubeConfig, checked under SpecKube.                  *)

\* C1 (as stated): whenever connectGWEndpoint is non-empty after trimming,
\* whatever the three flags are, the server is "https://" + the gateway
\* endpoint and the cluster entry has no certificate-authority-data key.
C1_GatewayAlwaysServer ==
  (Returned /\ IsSome(Gateway)) =>
     /\ Server = "https://" \o Get(Gateway)
     /\ ~HasCA

\* C2: the cluster entry carries certificate-authority-data if and only if
\* no gateway endpoint was supplied, useDNSBasedEndpoint is false and the
\* endpoint written into server does not end with "gke.goog".
C2_CACertIff ==
  Returned =>
     ( HasCA <=> ~( \/ IsSome(Gateway)
                    \/ inputs.useDNSBasedEndpoint
                    \/ endsWith(SubSeq(Server, Len("https://") + 1, Len(Server)), "gke.goog") ) )

\* C2 witness: a document for a public endpoint under gke.goog, no gateway,
\* no DNS flag, from which the CA data is left out.
C2_Witness ==
  /\ Returned
  /\ ~IsSome(Gateway) /\ ~inputs.useDNSBasedEndpoint /\ ~inputs.useInternalIP
  /\ Server = "https://pub.gke.goog"
  /\ ~HasCA

\* C3: users[0].user has exactly one of token and auth-provider:
\* auth-provider named gcp and no token when useAuthProvider, a non-empty
\* token and no auth-provider otherwise.
C3_ExactlyOneAuth ==
  Returned =>
     IF inputs.useAuthProvider
     THEN DOMAIN UserMap = {"auth-provider"} /\ UserMap["auth-provider"].name = "gcp"
     ELSE DOMAIN UserMap = {"token"} /\ UserMap["token"] # ""

\* C3 witness: a returned document whose user carries the auth-provider.
C3_Witness == Returned /\ inputs.useAuthProvider /\ "auth-provider" \in DOMAIN UserMap

\* C4 (as stated): with useAuthProvider no token is minted during the call,
\* and the call succeeds whatever the credential source does.
C4_NoMintWithAuthProvider ==
  inputs.useAuthProvider =>
     /\ \A i \in 1..Len(calls) : calls[i].api # "token"
     /\ (pc = "done" => Get(ret).ok)

C6_SingleMode ==
  (Returned /\ ~IsSome(Gateway)) =>
     /\ (~inputs.useInternalIP /\ ~inputs.useDNSBasedEndpoint)
           => Server = "https://" \o inputs.clusterData.endpoint
     /\ (inputs.useInternalIP /\ ~inputs.useDNSBasedEndpoint)
           => Server = "https://" \o PrivateEndpoint
     /\ (~inputs.useInternalIP /\ inputs.useDNSBasedEndpoint)
           => Server = "https://" \o DNSEndpoint

\* C6 witness: only the DNS flag, on a cluster whose three endpoints differ.
C6_Witness ==
  /\ Returned /\ ~IsSome(Gateway)
  /\ ~inputs.useInternalIP /\ inputs.useDNSBasedEndpoint
  /\ inputs.clusterData = dnsNamedCluster
  /\ Server = "https://cp.example.com"

----------------------------------------------------------------------------
(* Direct calls of discoverClusterMembership.                              *)

\* the largest number of memberships a list response carries in the model
MaxMemberships == 3

MembershipNames == {"membershipName1", "projects/p/locations/global/memberships/m2"}

\* resp.resources: absent, or an array of memberships
ListResponses ==
  {None} \cup
  { Some(rs) : rs \in UNION { [1..n -> [name : MembershipNames]] : n \in 0..MaxMemberships } }

\* a transport or API failure of a request
RequestErrors == {"request failed with status 403"}

DirectClients == [projectID : {None, Some(""), Some("foo")}, location : {None, Some("l")}]
DiscoverNames ==
  {"c", " c2 ", "projects/p/locations/l/clusters/c", "Projects/p/Locations/l/Clusters/c", "clusters/c"}

InitDiscover ==
  /\ pc = "discoverClusterMembership"
  /\ inputs \in [clusterName : DiscoverNames]
  /\ client \in DirectClients
  /\ calls = <<>>
  /\ inflight = {}
  /\ locals = [settled |-> FALSE]
  /\ files = {}
  /\ env = <<>>
  /\ outputs = <<>>
  /\ failures = <<>>
  /\ ret = None

\* getResource and the project ID test pass: the LIST request is issued
DiscoverStart ==
  /\ pc = "discoverClusterMembership"
  /\ discoverURL(client, inputs.clusterName).ok
  /\ Issue(Request("hub.list", discoverURL(client, inputs.clusterName).val))
  /\ pc' = "awaitList"
  /\ UNCHANGED <<inputs, client, locals, files, env, outputs, failures, ret>>

\* getResource or the project ID test throws: nothing is requested
DiscoverThrow ==
  /\ pc = "discoverClusterMembership"
  /\ ~discoverURL(client, inputs.clusterName).ok
  /\ ret' = Some(discoverURL(client, inputs.clusterName))
  /\ pc' = "done"
  /\ UNCHANGED <<inputs, client, calls, inflight, locals, files, env, outputs, failures>>

\* the LIST request resolves
DiscoverSettle ==
  /\ pc = "awaitList"
  /\ \E resources \in ListResponses :
       /\ locals' = [settled |-> TRUE, resources |-> resources]
       /\ ret' = Some(discoverClusterMembership(client, inputs.clusterName, resources))
  /\ Settle
  /\ pc' = "done"
  /\ UNCHANGED <<inputs, client, calls, files, env, outputs, failures>>

\* the LIST request rejects: the rejection is the call's
DiscoverFail ==
  /\ pc = "awaitList"
  /\ \E e \in RequestErrors : ret' = Some(Err(e))
  /\ Settle
  /\ pc' = "done"
  /\ UNCHANGED <<inputs, client, calls, locals, files, env, outputs, failures>>

NextDiscover == DiscoverStart \/ DiscoverThrow \/ DiscoverSettle \/ DiscoverFail

SpecDiscover == InitDiscover /\ [][NextDiscover]_vars

\* the list response a settled discovery call has seen
Listed == pc = "done" /\ locals.settled
Resources == IF IsSome(locals.resources) THEN Get(locals.resources) ELSE <<>>

\* C10: with exactly one resource the membership's name is returned; with
\* none (or no resources field) the call fails with "Found none", naming
\* the cluster and the project; with two or more it fails with "Found
\* multiple" followed by all the names, in order and separated by commas.
C10_DiscoverOutcome ==
  Listed =>
     LET r == Get(ret)
         n == Len(Resources)
     IN /\ (n = 1) => (r.ok /\ r.val = Resources[1].name)
        /\ (n = 0) => /\ ~r.ok
                      /\ includes(r.err, "Found none")
                      /\ includes(r.err, "for " \o inputs.clusterName \o " in " \o Get(client.projectID))
        /\ (n >= 2) => /\ ~r.ok
                       /\ includes(r.err, "Found multiple memberships " \o Resources[1].name \o ",")
                       /\ \A i \in 1..(n - 1) :
                            includes(r.err, Resources[i].name \o "," \o Resources[i + 1].name)
                       /\ includes(r.err, "," \o Resources[n].name \o ". ")

\* C10 witness: three candidates, two of them different, and the call
\* failed with the names listed.
C10_Witness ==
  /\ Listed
  /\ Len(Resources) = 3
  /\ Resources[1].name # Resources[2].name
  /\ ~Get(ret).ok
  /\ includes(Get(ret).err, "Found multiple")

----------------------------------------------------------------------------
(* run(): the orchestration, one action per stretch between two awaits.    *)

\* getInput of @actions/core: the value as configured, trimmed
getInput(in, name) == trim(in[name])

\* parseBoolean of actions-utils
parseBoolean(raw) ==
  LET key == trim(raw)
  IN IF key = "" THEN Ok(FALSE)
     ELSE IF key \in {"1", "t", "T", "true", "True", "TRUE"} THEN Ok(TRUE)
     ELSE IF key \in {"0", "f", "F", "false", "False", "FALSE"} THEN Ok(FALSE)
     ELSE Err("invalid boolean value \"" \o key \o "\"")

\* errorMessage: the message, trimmed, without "Error: ", first letter in
\* lower case
errorMessage(m) ==
  LET msg == trim(replaceFirst(trim(m), "Error: "))
  IN IF msg = "" THEN "" ELSE toLowerChar(Head(msg)) \o Tail(msg)

\* the argument of setFailed in the catch clause of run
failedWith(m) == "google-github-actions/get-gke-credentials failed with: " \o errorMessage(m)

\* path.join(workspace, filename)
pathjoin(dir, file) == IF endsWith(dir, "/") THEN dir \o file ELSE dir \o "/" \o file

\* mode of the written file, 0o600
KubeConfigMode == 384

\* Mutant of conflictingModes: the two flags are never compared.
conflictingModesUnchecked(useInternalIP, useConnectGateway) == FALSE

\* run: use_internal_ip and use_connect_gateway are both set
conflictingModes(useInternalIP, useConnectGateway) == useInternalIP /\ useConnectGateway

\* the options run passes to createKubeConfig; useDNSBasedEndpoint is not
\* passed, so it is undefined (falsy) inside createKubeConfig
runKubeOpts(l) ==
  [ useAuthProvider |-> l.useAuthProvider,
    useInternalIP |-> l.useInternalIP,
    useDNSBasedEndpoint |-> FALSE,
    clusterData |-> l.clusterData,
    connectGWEndpoint |-> l.connectGWEndpoint,
    contextName |-> l.contextName,
    namespace |-> l.namespace ]

\* Mutant of firstNonEmpty: the second operand is preferred to the first.
firstNonEmptySwapped(a, b, c) == IF b # "" THEN b ELSE IF a # "" THEN a ELSE c

\* a || b || c on strings
firstNonEmpty(a, b, c) == IF a # "" THEN a ELSE IF b # "" THEN b ELSE c

\* Mutant of runGetCluster: the default context name is built from the
\* project and location of the parsed cluster name.
runGetClusterParsedContext(l, contextNameInput, url) ==
  IF ~url.ok THEN url
  ELSE Ok([ client |-> [projectID |-> Some(l.projectID), location |-> Some(l.location)],
            call |-> Request("container.get", url.val),
            pc |-> "awaitCluster",
            locals |-> [l EXCEPT !.contextName =
                          firstNonEmpty(contextNameInput,
                                        "gke_" \o l.clusterName.projectID \o "_"
                                          \o l.clusterName.location \o "_" \o l.clusterName.id,
                                        "")] ])

\* run, "Pick the best context name" down to the request of getCluster,
\* with the locals computed so far; url is what getCluster resolved
runGetCluster(l, contextNameInput, url) ==
  IF ~url.ok THEN url
  ELSE Ok([ client |-> [projectID |-> Some(l.projectID), location |-> Some(l.location)],
            call |-> Request("container.get", url.val),
            pc |-> "awaitCluster",
            locals |-> [l EXCEPT !.contextName =
                          firstNonEmpty(contextNameInput,
                                        "gke_" \o l.projectID \o "_" \o l.location \o "_"
                                          \o l.clusterName.id,
                                        "")] ])

\* run, from the workspace test to the construction of the client
runDerive(l, workspace) ==
  IF ~Truthy(workspace) THEN Err("$GITHUB_WORKSPACE is not set")
  ELSE IF l.projectID = ""
       THEN Err("Failed to extract project ID, please set the \"project_id\" input, "
                \o "set $GCLOUD_PROJECT, or specify the cluster name as a full "
                \o "resource name.")
  ELSE IF l.location = ""
       THEN Err("Failed to extract location, please set the \"location\" input or "
                \o "specify the cluster name as a full resource name.")
  ELSE runGetCluster([l EXCEPT !.githubWorkspace = Get(workspace)],
                     l.contextName,
                     getClusterURL([projectID |-> Some(l.projectID),
                                    location |-> Some(l.location)], l.clusterName.id))

\* run, from the parsed inputs to the both-flags test; parsed, auth,
\* internal and gateway are the results of the four parsers
runValidate(in, clusterNameInput, parsed, auth, internal, gateway) ==
  IF clusterNameInput = "" THEN Err("Input required and not supplied: cluster_name")
  ELSE IF ~parsed.ok THEN parsed
  ELSE IF ~auth.ok THEN auth
  ELSE IF ~internal.ok THEN internal
  ELSE IF ~gateway.ok THEN gateway
  ELSE IF conflictingModes(internal.val, gateway.val)
       THEN Err("The workflow must specify only one of 'use_internal_ip' or 'use_connect_gateway'")
  ELSE runDerive([ projectID |-> firstNonEmpty(getInput(in, "project_id"),
                                               parsed.val.projectID,
                                               IF Truthy(in.GCLOUD_PROJECT)
                                               THEN Get(in.GCLOUD_PROJECT) ELSE ""),
                   location |-> firstNonEmpty(getInput(in, "location"),
                                              parsed.val.location, ""),
                   clusterName |-> parsed.val,
                   useAuthProvider |-> auth.val,
                   useInternalIP |-> internal.val,
                   useConnectGateway |-> gateway.val,
                   contextName |-> getInput(in, "context_name"),
                   namespace |-> presence(Some(getInput(in, "namespace"))),
                   githubWorkspace |-> "",
                   clusterData |-> Cluster("", "", "", "", ""),
                   connectGWEndpoint |-> None,
                   fleetMembershipName |-> "",
                   membership |-> [collection |-> "",
                                   membershipName |-> [projectID |-> "", location |-> "",
                                                       membershipName |-> ""]],
                   endpoint |-> "",
                   kubeConfig |-> [k \in {} |-> ""],
                   kubeConfigPath |-> "" ],
                 in.GITHUB_WORKSPACE)

\* run from its first line to the request of getCluster: the error thrown,
\* or the locals, the client and the request (locals that are assigned
\* later are declared here with a placeholder)
runPrelude(in) ==
  runValidate(in,
              getInput(in, "cluster_name"),
              parseResourceName(getInput(in, "cluster_name")),
              parseBoolean(getInput(in, "use_auth_provider")),
              parseBoolean(getInput(in, "use_internal_ip")),
              parseBoolean(getInput(in, "use_connect_gateway")))

\* createKubeConfig as called by run, up to `await this.getToken()`
startKube(l) ==
  Ok([ pc |-> "awaitToken",
       call |-> TokenCall,
       locals |-> [l EXCEPT !.endpoint = selectEndpoint(runKubeOpts(l))] ])

\* getConnectGWEndpoint up to its first await
startGateway(l, name) ==
  Ok([ pc |-> "awaitMembership",
       call |-> Request("hub.get", membershipURL(name)),
       locals |-> [l EXCEPT !.fleetMembershipName = name] ])

\* discoverClusterMembership as called by run, up to its await
startDiscover(l, url) ==
  IF ~url.ok THEN url
  ELSE Ok([pc |-> "awaitList", call |-> Request("hub.list", url.val), locals |-> l])

\* Mutant of startConnectGateway: the membership is always discovered.
startConnectGatewayDiscover(l, c, fleetMembershipName) ==
  startDiscover(l, discoverURL(c, l.clusterName.id))

\* run, the connect gateway branch: an explicit fleet_membership_name skips
\* the discovery
startConnectGateway(l, c, fleetMembershipName) ==
  IF IsSome(fleetMembershipName) THEN startGateway(l, Get(fleetMembershipName))
  ELSE startDiscover(l, discoverURL(c, l.clusterName.id))

\* run after getCluster has settled with resp
afterCluster(l, c, in, resp) ==
  IF ~resp.ok THEN resp
  ELSE IF ~l.useConnectGateway THEN startKube([l EXCEPT !.clusterData = resp.val])
  ELSE startConnectGateway([l EXCEPT !.clusterData = resp.val], c,
                           presence(Some(getInput(in, "fleet_membership_name"))))

\* the membership discovered is handed to getConnectGWEndpoint
discovered(l, name) == IF ~name.ok THEN name ELSE startGateway(l, name.val)

\* run after the LIST request of discoverClusterMembership has settled
afterList(l, c, resp) ==
  IF ~resp.ok THEN resp
  ELSE discovered(l, discoverClusterMembership(c, l.clusterName.id, resp.val))

\* getConnectGWEndpoint from the parsed membership to the request of
\* projectIDtoNum
startProject(l, looked) ==
  IF ~looked.ok THEN looked
  ELSE Ok([ pc |-> "awaitProject",
            call |-> Request("crm.get", projectURL(looked.val.membershipName.projectID)),
            locals |-> [l EXCEPT !.membership = looked.val] ])

\* run after the membership GET of getConnectGWEndpoint has settled
afterMembership(l, resp) ==
  IF ~resp.ok THEN resp
  ELSE startProject(l, membershipLookup(l.fleetMembershipName, resp.val))

\* getConnectGWEndpoint returns and createKubeConfig is called
gatewayResolved(l, num) ==
  IF ~num.ok THEN num
  ELSE startKube([l EXCEPT !.connectGWEndpoint =
                              Some(connectGWEndpoint(num.val, l.membership))])

\* run after the project GET of projectIDtoNum has settled
afterProject(l, resp) ==
  IF ~resp.ok THEN resp ELSE gatewayResolved(l, projectIDtoNum(resp.val))

\* createKubeConfig returns and the write starts; random is the result of
\* randomFilename(8)
startWrite(l, token, random) ==
  IF ~token.ok THEN token
  ELSE Ok([ pc |-> "awaitWrite",
            locals |-> [l EXCEPT
                          !.kubeConfig = kubeConfig(runKubeOpts(l), l.endpoint, token.val),
                          !.kubeConfigPath = pathjoin(l.githubWorkspace,
                                                      "gha-kubeconfig-" \o random)] ])

\* run after getToken has settled
afterToken(l, outcome, random) == startWrite(l, getToken(outcome), random)

\* what the requests of a run can settle to
ClusterResponses == {Ok(privateCluster), Ok(dnsNamedCluster)} \cup {Err(e) : e \in RequestErrors}
RunListResponses == {Ok(r) : r \in ListResponses} \cup {Err(e) : e \in RequestErrors}
MembershipResponses ==
  { Ok(None),
    Ok(Some([name |-> "projects/p3/locations/global/memberships/m1", gkeCluster |-> TRUE])),
    Ok(Some([name |-> "projects/p3/locations/us/gkeMemberships/m1", gkeCluster |-> FALSE])),
    Ok(Some([name |-> "m1", gkeCluster |-> TRUE])) }
  \cup {Err(e) : e \in RequestErrors}
ProjectResponses == {Ok("projects/123456"), Ok("123456"), Ok("projects/")}
                    \cup {Err(e) : e \in RequestErrors}
RandomFilenames == {"0a1b2c3d", "9f8e7d6c"}
WriteErrors == {"EACCES: permission denied"}

RunInputs ==
  [ project_id : {"", "p1"},
    location : {"", "l1"},
    cluster_name : {"", "c1", "projects/p2/locations/l2/clusters/c2",
                    "projects/p2/locations/l2/clusters/c2/x", "projects/p2"},
    use_auth_provider : {"", "true"},
    use_internal_ip : {"", "true", "yes"},
    use_connect_gateway : {"false", "true"},
    use_dns_based_endpoint : {"", "true"},
    context_name : {"", "my-context"},
    namespace : {"", " ns "},
    fleet_membership_name : {"", "projects/p2/locations/global/memberships/m1"},
    GITHUB_WORKSPACE : {None, Some("/ws")},
    GCLOUD_PROJECT : {None, Some("env-project")} ]

InitRun ==
  /\ pc = "run"
  /\ inputs \in RunInputs
  /\ client = NoClient
  /\ calls = <<>>
  /\ inflight = {}
  /\ locals = [settled |-> FALSE]
  /\ files = {}
  /\ env = <<>>
  /\ outputs = <<>>
  /\ failures = <<>>
  /\ ret = None

\* Mutant of Continue: the next request is issued while the previous one
\* is still in flight.
ContinueOverlapped(next) ==
  /\ next.ok
  /\ pc' = next.val.pc
  /\ locals' = next.val.locals
  /\ calls' = Append(calls, next.val.call)
  /\ inflight' = inflight \cup {Len(calls) + 1}
  /\ UNCHANGED <<inputs, files, env, outputs, failures, ret>>

\* a stretch of run ends at the next await: the request is issued
Continue(next) ==
  /\ next.ok
  /\ pc' = next.val.pc
  /\ locals' = next.val.locals
  /\ calls' = Append(calls, next.val.call)
  /\ inflight' = {Len(calls) + 1}
  /\ UNCHANGED <<inputs, files, env, outputs, failures, ret>>

\* the first stretch of run also constructs the client
Started(next) == Continue(next) /\ client' = next.val.client

\* the token is minted: no request follows, the file write starts
Writing(next) ==
  /\ next.ok
  /\ pc' = next.val.pc
  /\ locals' = next.val.locals
  /\ inflight' = {}
  /\ UNCHANGED <<inputs, client, calls, files, env, outputs, failures, ret>>

\* Mutant of Catch: the error is swallowed, setFailed is not called.
CatchSilent(next) ==
  /\ ~next.ok
  /\ pc' = "done"
  /\ inflight' = {}
  /\ UNCHANGED <<inputs, calls, locals, files, env, outputs, failures, ret>>

\* a stretch of run throws: the catch clause of run reports it
Catch(next) ==
  /\ ~next.ok
  /\ failures' = Append(failures, failedWith(next.err))
  /\ pc' = "done"
  /\ inflight' = {}
  /\ UNCHANGED <<inputs, calls, locals, files, env, outputs, ret>>

RunStart ==
  /\ pc = "run"
  /\ Started(runPrelude(inputs))

RunStartFail ==
  /\ pc = "run"
  /\ Catch(runPrelude(inputs))
  /\ UNCHANGED client

RunCluster ==
  /\ pc = "awaitCluster"
  /\ \E resp \in ClusterResponses : Continue(afterCluster(locals, client, inputs, resp))
  /\ UNCHANGED client

RunClusterFail ==
  /\ pc = "awaitCluster"
  /\ \E resp \in ClusterResponses : Catch(afterCluster(locals, client, inputs, resp))
  /\ UNCHANGED client

RunList ==
  /\ pc = "awaitList"
  /\ \E resp \in RunListResponses : Continue(afterList(locals, client, resp))
  /\ UNCHANGED client

RunListFail ==
  /\ pc = "awaitList"
  /\ \E resp \in RunListResponses : Catch(afterList(locals, client, resp))
  /\ UNCHANGED client

RunMembership ==
  /\ pc = "awaitMembership"
  /\ \E resp \in MembershipResponses : Continue(afterMembership(locals, resp))
  /\ UNCHANGED client

RunMembershipFail ==
  /\ pc = "awaitMembership"
  /\ \E resp \in MembershipResponses : Catch(afterMembership(locals, resp))
  /\ UNCHANGED client

RunProject ==
  /\ pc = "awaitProject"
  /\ \E resp \in ProjectResponses : Continue(afterProject(locals, resp))
  /\ UNCHANGED client

RunProjectFail ==
  /\ pc = "awaitProject"
  /\ \E resp \in ProjectResponses : Catch(afterProject(locals, resp))
  /\ UNCHANGED client

\* the token is minted and the document assembled: writeSecureFile starts
RunToken ==
  /\ pc = "awaitToken"
  /\ \E out \in TokenOutcomes, random \in RandomFilenames :
       Writing(afterToken(locals, out, random))

\* Mutant of RunTokenFail: the path was chosen and exported before the
\* document was synthesized.
RunTokenFailExported ==
  /\ pc = "awaitToken"
  /\ \E out \in TokenOutcomes, random \in RandomFilenames :
       /\ ~afterToken(locals, out, random).ok
       /\ failures' = Append(failures, failedWith(afterToken(locals, out, random).err))
       /\ env' = ("KUBECONFIG" :> pathjoin(locals.githubWorkspace, "gha-kubeconfig-" \o random))
  /\ pc' = "done"
  /\ inflight' = {}
  /\ UNCHANGED <<inputs, client, calls, locals, files, outputs, ret>>

RunTokenFail ==
  /\ pc = "awaitToken"
  /\ \E out \in TokenOutcomes, random \in RandomFilenames :
       Catch(afterToken(locals, out, random))
  /\ UNCHANGED client

\* Mutant of RunWrite: KUBE_CONFIG_PATH is exported as the workspace
\* directory.
RunWriteWorkspace ==
  /\ pc = "awaitWrite"
  /\ files' = files \cup {[ path |-> locals.kubeConfigPath,
                            mode |-> KubeConfigMode,
                            content |-> locals.kubeConfig ]}
  /\ env' = ("KUBECONFIG" :> locals.kubeConfigPath) @@ ("KUBE_CONFIG_PATH" :> locals.githubWorkspace)
  /\ outputs' = ("kubeconfig_path" :> locals.kubeConfigPath)
  /\ pc' = "done"
  /\ UNCHANGED <<inputs, client, calls, inflight, locals, failures, ret>>

\* Mutant of RunWrite: the file is written with mode 0644.
RunWriteWorldReadable ==
  /\ pc = "awaitWrite"
  /\ files' = files \cup {[ path |-> locals.kubeConfigPath,
                            mode |-> 420,
                            content |-> locals.kubeConfig ]}
  /\ env' = ("KUBECONFIG" :> locals.kubeConfigPath) @@ ("KUBE_CONFIG_PATH" :> locals.kubeConfigPath)
  /\ outputs' = ("kubeconfig_path" :> locals.kubeConfigPath)
  /\ pc' = "done"
  /\ UNCHANGED <<inputs, client, calls, inflight, locals, failures, ret>>

\* writeSecureFile resolves: the file exists, the path is exported
RunWrite ==
  /\ pc = "awaitWrite"
  /\ files' = files \cup {[ path |-> locals.kubeConfigPath,
                            mode |-> KubeConfigMode,
                            content |-> locals.kubeConfig ]}
  /\ env' = ("KUBECONFIG" :> locals.kubeConfigPath) @@ ("KUBE_CONFIG_PATH" :> locals.kubeConfigPath)
  /\ outputs' = ("kubeconfig_path" :> locals.kubeConfigPath)
  /\ pc' = "done"
  /\ UNCHANGED <<inputs, client, calls, inflight, locals, failures, ret>>

\* writeSecureFile rejects: the inner catch wraps the message, the outer
\* one reports it
RunWriteFail ==
  /\ pc = "awaitWrite"
  /\ \E e \in WriteErrors :
       Catch(Err("Failed to write Kubernetes config file: " \o errorMessage(e)))
  /\ UNCHANGED client

NextRun ==
  \/ RunStart \/ RunStartFail
  \/ RunCluster \/ RunClusterFail
  \/ RunList \/ RunListFail
  \/ RunMembership \/ RunMembershipFail
  \/ RunProject \/ RunProjectFail
  \/ RunToken \/ RunTokenFail
  \/ RunWrite \/ RunWriteFail

SpecRun == InitRun /\ [][NextRun]_vars

----------------------------------------------------------------------------
(* Claims about run, checked under SpecRun.                                *)

InternalIPInput == parseBoolean(getInput(inputs, "use_internal_ip"))
ConnectGatewayInput == parseBoolean(getInput(inputs, "use_connect_gateway"))
BothModes ==
  /\ InternalIPInput.ok /\ InternalIPInput.val
  /\ ConnectGatewayInput.ok /\ ConnectGatewayInput.val
Failed == pc = "done" /\ failures # <<>>
\* the run got as far as starting the file write
ReachedWrite == "kubeConfigPath" \in DOMAIN locals /\ locals.kubeConfigPath # ""

\* C8: with use_internal_ip and use_connect_gateway both true the run ends
\* in failure without ever issuing a request (cluster GET, membership LIST
\* or GET, project GET, token), and the failure is the only-one-of
\* configuration error unless cluster_name itself is rejected first.
C8_ConflictFailsBeforeNetwork ==
  BothModes =>
     /\ calls = <<>> /\ inflight = {}
     /\ pc \in {"run", "done"}
     /\ (pc = "done") =>
           /\ Len(failures) = 1
           /\ files = {} /\ env = <<>> /\ outputs = <<>>
           /\ parseResourceName(getInput(inputs, "cluster_name")).ok
                 => includes(failures[1], "must specify only one of")

\* C8 witness: a finished run with both flags set and a valid cluster name.
C8_Witness ==
  /\ BothModes /\ pc = "done"
  /\ inputs.cluster_name = "c1"
  /\ includes(failures[1], "must specify only one of")
  /\ calls = <<>>

\* C9: when the run fails at any step before the file write, no file has
\* been written and neither KUBECONFIG, KUBE_CONFIG_PATH nor the
\* kubeconfig_path output is set.
C9_NoArtifactOnFailure ==
  (Failed /\ ~ReachedWrite) =>
     /\ files = {}
     /\ DOMAIN env = {}
     /\ DOMAIN outputs = {}

\* C9 witness: a gateway-mode run that failed at the token mint, after the
\* cluster, membership and project requests.
C9_Witness ==
  /\ Failed /\ ~ReachedWrite
  /\ Len(calls) >= 4
  /\ calls[Len(calls)].api = "token"
  /\ files = {}

----------------------------------------------------------------------------
(* Direct calls of the two static parsers.                                 *)

\* name || '' : a missing argument is parsed as the empty string
orEmpty(o) == IF IsSome(o) THEN Get(o) ELSE ""

\* path segments: identifiers without "/"; the parsers keep their case
ProjectSegs == {"p", "My-Proj"}
LocationSegs == {"l", "us-central1"}
NameSegs == {"c", "my-cluster"}

\* the spellings of the keywords of a cluster name and of a membership name
ClusterKeywords ==
  { <<"projects/", "/locations/", "/clusters/">>,
    <<"PROJECTS/", "/Locations/", "/CLUSTERS/">> }
MembershipKeywords ==
  { <<"projects/", "/locations/", "/memberships/">>,
    <<"projects/", "/locations/", "/gkeMemberships/">>,
    <<"Projects/", "/LOCATIONS/", "/GKEMEMBERSHIPS/">> }

Path(k, P, L, N) == k[1] \o P \o k[2] \o L \o k[3] \o N

FullNames ==
  { Path(k, P, L, N) : k \in ClusterKeywords \cup MembershipKeywords,
                       P \in ProjectSegs, L \in LocationSegs, N \in NameSegs }

BareNames == {"my-cluster", "c", " c ", "a b", "my-membership", "c\t"}
BlankNames == {"", " ", "  ", "\t", " \n ", "\r\n"}
PartialPaths ==
  { "projects/p/locations", "projects/p", "projects/p/locations/l",
    "projects/p/locations/l/clusters", "projects/p/locations/l/clusters/",
    "projects/p/locations/l/memberships", "projects/p/locations/l/memberships/",
    "locations/l/clusters/c", "locations/l/memberships/m",
    "projects//locations/l/clusters/c", "projects//locations/l/memberships/c",
    "/", "p/c" }
OtherPaths ==
  { " projects/p/locations/l/clusters/c ",
    " projects/p/locations/l/gkeMemberships/c ",
    "xprojects/p/locations/l/clusters/c",
    "projects/p/locations/l/clusters/c/x",
    "projects/p/locations/l/memberships/c/x",
    "projects/a/locations/b/clusters/c/clusters/d",
    "projects/p/zones/l/clusters/c" }

ParseNames ==
  {None} \cup { Some(s) : s \in FullNames \cup BareNames \cup BlankNames
                                  \cup PartialPaths \cup OtherPaths }

InitParse ==
  /\ pc = "parse"
  /\ inputs \in [parser : {"parseResourceName", "parseMembershipName"}, name : ParseNames]
  /\ client = NoClient
  /\ calls = <<>>
  /\ inflight = {}
  /\ locals = [settled |-> FALSE]
  /\ files = {}
  /\ env = <<>>
  /\ outputs = <<>>
  /\ failures = <<>>
  /\ ret = None

\* ClusterClient.parseResourceName(name) returns or throws
ParseResource ==
  /\ pc = "parse"
  /\ inputs.parser = "parseResourceName"
  /\ ret' = Some(parseResourceName(orEmpty(inputs.name)))
  /\ pc' = "done"
  /\ UNCHANGED <<inputs, client, calls, inflight, locals, files, env, outputs, failures>>

\* ClusterClient.parseMembershipName(name) returns or throws
ParseMembership ==
  /\ pc = "parse"
  /\ inputs.parser = "parseMembershipName"
  /\ ret' = Some(parseMembershipName(orEmpty(inputs.name)))
  /\ pc' = "done"
  /\ UNCHANGED <<inputs, client, calls, inflight, locals, files, env, outputs, failures>>

NextParse == ParseResource \/ ParseMembership

SpecParse == InitParse /\ [][NextParse]_vars

\* a settled call of one of the parsers on a string
Parsed(parser) == pc = "done" /\ inputs.parser = parser
ParsedString(parser) == Parsed(parser) /\ IsSome(inputs.name)
Input == Get(inputs.name)
Result == Get(ret)

\* every character of s is white space
Blank(s) == \A i \in 1..Len(s) : SubSeq(s, i, i) \in {" ", "\t", "\n", "\r"}
\* s has no white space at either end
Unpadded(s) ==
  Len(s) > 0 => /\ SubSeq(s, 1, 1) \notin {" ", "\t", "\n", "\r"}
                /\ SubSeq(s, Len(s), Len(s)) \notin {" ", "\t", "\n", "\r"}
HasSlash(s) == \E i \in 1..Len(s) : SubSeq(s, i, i) = "/"

\* s is projects/P/locations/L/clusters/C for path segments P, L, C
OfClusterForm(s) ==
  \E k \in ClusterKeywords, P \in ProjectSegs \cup {"a"}, L \in LocationSegs \cup {"b"},
     N \in NameSegs \cup {"d", "x"} : s = Path(k, P, L, N)

\* C12 (as stated): a name of the form projects/P/locations/L/clusters/C
\* (keywords in any case) parses to exactly {P, L, C}, and every other name
\* that contains "/" is rejected with an invalid-pattern error.  White
\* space around the name is not counted against it.
C12_FullNameOrPatternError ==
  ParsedString("parseResourceName") =>
     /\ \A k \in ClusterKeywords, P \in ProjectSegs, L \in LocationSegs, N \in NameSegs :
          Input = Path(k, P, L, N)
             => Result = Ok([projectID |-> P, location |-> L, id |-> N])
     /\ (HasSlash(Input) /\ ~OfClusterForm(trim(Input)))
             => (~Result.ok /\ includes(Result.err, "invalid pattern"))

\* C13 (as stated): a non-empty name without "/" parses to empty project
\* and location and an id equal to the input string itself.
C13_BareNameVerbatim ==
  (ParsedString("parseResourceName") /\ Input # "" /\ ~HasSlash(Input)) =>
     Result = Ok([projectID |-> "", location |-> "", id |-> Input])

\* C13 (amended): a name without "/" that is not blank parses to empty
\* project and location and an id equal to the input without the white
\* space around it; an unpadded name is its own id, whatever its characters.
C13_BareNameTrimmed ==
  (ParsedString("parseResourceName") /\ ~Blank(Input) /\ ~HasSlash(Input)) =>
     /\ Result.ok
     /\ Result.val.projectID = "" /\ Result.val.location = ""
     /\ Result.val.id = trim(Input)
     /\ Result.val.id # "" /\ Unpadded(Result.val.id)
     /\ Unpadded(Input) => Result.val.id = Input

\* C13 witness: the padded bare name " c " parsed to the id "c".
C13_Witness ==
  /\ ParsedString("parseResourceName")
  /\ Input = " c "
  /\ Result = Ok([projectID |-> "", location |-> "", id |-> "c"])

\* C14: projects/P/locations/L/memberships/M and
\* projects/P/locations/L/gkeMemberships/M both parse to {P, L, M}; a name
\* without "/" and a partial path are rejected with a parse error.
C14_MembershipName ==
  ParsedString("parseMembershipName") =>
     /\ \A k \in MembershipKeywords, P \in ProjectSegs, L \in LocationSegs, N \in NameSegs :
          Input = Path(k, P, L, N)
             => Result = Ok([projectID |-> P, location |-> L, membershipName |-> N])
     /\ (~HasSlash(Input) \/ Input \in PartialPaths)
             => (~Result.ok /\ includes(Result.err, "Failed to parse membership name"))

\* C14 witness: a gkeMemberships path parsed to its three segments.
C14_Witness ==
  /\ ParsedString("parseMembershipName")
  /\ Input = "projects/My-Proj/locations/us-central1/gkeMemberships/my-cluster"
  /\ Result = Ok([projectID |-> "My-Proj", location |-> "us-central1",
                  membershipName |-> "my-cluster"])

\* C15: for a missing, empty or blank argument each parser throws; it
\* never returns a record.
C15_BlankRejected ==
  (pc = "done" /\ inputs.parser \in {"parseResourceName", "parseMembershipName"}
     /\ (~IsSome(inputs.name) \/ Blank(Input)))
     => (~Result.ok /\ includes(Result.err, "Failed to parse"))

\* C15 witness: parseResourceName has thrown on a blank argument of several
\* kinds of white space.
C15_Witness ==
  /\ ParsedString("parseResourceName")
  /\ Input = " \n "
  /\ ~Result.ok

----------------------------------------------------------------------------
(* Direct calls of getCluster, getConnectGWEndpoint and projectIDtoNum.    *)

ClusterArgs ==
  {"c", "my-cluster", " c2 ", "", "clusters/c", "projects/p/locations/l/clusters/c"}
MembershipArgs ==
  {"projects/p/locations/global/memberships/m1", "projects/q/locations/l/gkeMemberships/zz", "m1"}
ProjectArgs == {"p", "My-Proj", "123456"}

ClientCalls ==
  [method : {"getCluster"}, arg : ClusterArgs]
  \cup [method : {"getConnectGWEndpoint"}, arg : MembershipArgs]
  \cup [method : {"projectIDtoNum"}, arg : ProjectArgs]

\* the membership records a GET of the hub can return: the name carries
\* either collection, with or without endpoint.gkeCluster
FetchedMemberships ==
  { [name |-> Path(k, P, L, "m1"), gkeCluster |-> g] :
      k \in {<<"projects/", "/locations/", "/memberships/">>,
             <<"projects/", "/locations/", "/gkeMemberships/">>},
      P \in ProjectSegs, L \in {"global", "us-central1"}, g \in BOOLEAN }
  \cup {[name |-> "m1", gkeCluster |-> TRUE]}
DirectMembershipResponses ==
  {Ok(None)} \cup {Ok(Some(m)) : m \in FetchedMemberships} \cup {Err(e) : e \in RequestErrors}

\* resp.name of the resource-manager lookup
ProjectRefs ==
  { "projects/123456", "projects/1", "123456", "projects/", "", "project/123456",
    "xprojects/123", "projects/123/x", "projects/projects/5" }
DirectProjectResponses == {Ok(r) : r \in ProjectRefs} \cup {Err(e) : e \in RequestErrors}

NoMembership == [name |-> "", gkeCluster |-> FALSE]
NoLookup ==
  [collection |-> "", membershipName |-> [projectID |-> "", location |-> "", membershipName |-> ""]]

InitClient ==
  /\ pc = "call"
  /\ inputs \in ClientCalls
  /\ client \in (IF inputs.method = "getCluster" THEN DirectClients ELSE {NoClient})
  /\ calls = <<>>
  /\ inflight = {}
  /\ locals = [membership |-> NoMembership, looked |-> NoLookup, projectRef |-> None]
  /\ files = {}
  /\ env = <<>>
  /\ outputs = <<>>
  /\ failures = <<>>
  /\ ret = None

\* a directly called method rejects
Rejects(e) ==
  /\ ret' = Some(Err(e))
  /\ inflight' = {}
  /\ pc' = "done"
  /\ UNCHANGED <<inputs, client, calls, locals, files, env, outputs, failures>>

\* getCluster: the name resolves and the GET is issued
ClusterStart ==
  /\ pc = "call" /\ inputs.method = "getCluster"
  /\ getClusterURL(client, inputs.arg).ok
  /\ Issue(Request("container.get", getClusterURL(client, inputs.arg).val))
  /\ pc' = "awaitCluster"
  /\ UNCHANGED <<inputs, client, locals, files, env, outputs, failures, ret>>

\* getCluster: getResource throws, nothing is requested
ClusterThrow ==
  /\ pc = "call" /\ inputs.method = "getCluster"
  /\ ~getClusterURL(client, inputs.arg).ok
  /\ Rejects(getClusterURL(client, inputs.arg).err)

\* getCluster: the GET settles and its outcome is the call's
ClusterSettle ==
  /\ pc = "awaitCluster"
  /\ \E resp \in ClusterResponses : ret' = Some(resp)
  /\ Settle
  /\ pc' = "done"
  /\ UNCHANGED <<inputs, client, calls, locals, files, env, outputs, failures>>

\* getConnectGWEndpoint: the membership GET is issued
GatewayStart ==
  /\ pc = "call" /\ inputs.method = "getConnectGWEndpoint"
  /\ Issue(Request("hub.get", membershipURL(inputs.arg)))
  /\ pc' = "awaitMembership"
  /\ UNCHANGED <<inputs, client, locals, files, env, outputs, failures, ret>>

\* getConnectGWEndpoint: the membership is fetched and parsed, the project
\* lookup is issued
GatewayMembership ==
  /\ pc = "awaitMembership"
  /\ \E resp \in DirectMembershipResponses :
       /\ resp.ok
       /\ membershipLookup(inputs.arg, resp.val).ok
       /\ locals' = [locals EXCEPT !.membership = Get(resp.val),
                                   !.looked = membershipLookup(inputs.arg, resp.val).val]
       /\ calls' = Append(calls,
            Request("crm.get",
                    projectURL(membershipLookup(inputs.arg, resp.val).val.membershipName.projectID)))
  /\ inflight' = {Len(calls) + 1}
  /\ pc' = "awaitProject"
  /\ UNCHANGED <<inputs, client, files, env, outputs, failures, ret>>

\* getConnectGWEndpoint: the GET rejects, the body is empty, or the name of
\* the record does not parse
GatewayMembershipThrow ==
  /\ pc = "awaitMembership"
  /\ \E resp \in DirectMembershipResponses :
       \/ ~resp.ok /\ Rejects(resp.err)
       \/ /\ resp.ok
          /\ ~membershipLookup(inputs.arg, resp.val).ok
          /\ Rejects(membershipLookup(inputs.arg, resp.val).err)

\* projectIDtoNum: the lookup is issued
ProjectStart ==
  /\ pc = "call" /\ inputs.method = "projectIDtoNum"
  /\ Issue(Request("crm.get", projectURL(inputs.arg)))
  /\ pc' = "awaitProject"
  /\ UNCHANGED <<inputs, client, locals, files, env, outputs, failures, ret>>

\* projectIDtoNum returns the number; getConnectGWEndpoint composes the
\* endpoint with it
ProjectSettle ==
  /\ pc = "awaitProject"
  /\ \E resp \in DirectProjectResponses :
       /\ resp.ok
       /\ projectIDtoNum(resp.val).ok
       /\ locals' = [locals EXCEPT !.projectRef = Some(resp.val)]
       /\ ret' = Some(Ok(IF inputs.method = "projectIDtoNum"
                         THEN projectIDtoNum(resp.val).val
                         ELSE connectGWEndpoint(projectIDtoNum(resp.val).val, locals.looked)))
  /\ Settle
  /\ pc' = "done"
  /\ UNCHANGED <<inputs, client, calls, files, env, outputs, failures>>

\* the lookup rejects, or projectIDtoNum throws on resp.name
ProjectThrow ==
  /\ pc = "awaitProject"
  /\ \E resp \in DirectProjectResponses :
       \/ /\ ~resp.ok
          /\ ret' = Some(Err(resp.err))
          /\ UNCHANGED locals
       \/ /\ resp.ok
          /\ ~projectIDtoNum(resp.val).ok
          /\ ret' = Some(Err(projectIDtoNum(resp.val).err))
          /\ locals' = [locals EXCEPT !.projectRef = Some(resp.val)]
  /\ Settle
  /\ pc' = "done"
  /\ UNCHANGED <<inputs, client, calls, files, env, outputs, failures>>

NextClient ==
  \/ ClusterStart \/ ClusterThrow \/ ClusterSettle
  \/ GatewayStart \/ GatewayMembership \/ GatewayMembershipThrow
  \/ ProjectStart \/ ProjectSettle \/ ProjectThrow

SpecClient == InitClient /\ [][NextClient]_vars

\* a settled direct call of a method
Called(method) == pc = "done" /\ inputs.method = method

\* the membership record a getConnectGWEndpoint call has fetched, and the
\* reference the project lookup has answered with
Fetched == locals.membership
ProjectRef == Get(locals.projectRef)
ProjectNumbers == {"123456", "1"}

\* C11: the endpoint returned by getConnectGWEndpoint is
\* connectgateway.googleapis.com/v1/projects/<num>/locations/<loc>/<collection>/<name>
\* with <loc> and <name> the segments of the fetched record's name, <num>
\* the number answered by the lookup of the project ID of that same name,
\* and <collection> gkeMemberships exactly when the record has
\* endpoint.gkeCluster, whatever collection the name itself carries.
C11_GatewayEndpoint ==
  (Called("getConnectGWEndpoint") /\ Result.ok) =>
     /\ Len(calls) = 2
     /\ calls[1].url = "https://gkehub.googleapis.com/v1/" \o inputs.arg
     /\ \A k \in MembershipKeywords, P \in ProjectSegs, L \in {"global", "us-central1"},
          num \in ProjectNumbers :
          (Fetched.name = Path(k, P, L, "m1") /\ ProjectRef = "projects/" \o num) =>
             /\ calls[2].url = "https://cloudresourcemanager.googleapis.com/v3/projects/" \o P
             /\ Result.val = "connectgateway.googleapis.com/v1/projects/" \o num
                             \o "/locations/" \o L \o "/"
                             \o (IF Fetched.gkeCluster THEN "gkeMemberships" ELSE "memberships")
                             \o "/m1"

\* C11 witness: a record named under memberships that has
\* endpoint.gkeCluster, fetched for an argument naming another membership,
\* gave an endpoint under gkeMemberships with the record's own segments.
C11_Witness ==
  /\ Called("getConnectGWEndpoint") /\ Result.ok
  /\ inputs.arg = "projects/q/locations/l/gkeMemberships/zz"
  /\ Fetched = [name |-> "projects/My-Proj/locations/us-central1/memberships/m1",
                gkeCluster |-> TRUE]
  /\ ProjectRef = "projects/123456"
  /\ Result.val = "connectgateway.googleapis.com/v1/projects/123456/locations/us-central1/gkeMemberships/m1"

\* a short cluster name: not blank and without "/"
ShortName(s) == ~Blank(s) /\ ~HasSlash(s)

\* C16: getCluster with a short name fails with an error naming
\* "project_id" on a client without project ID, and with an error naming
\* "location" on a client with a project ID and no location, without any
\* request; with both the one request is the GET of
\* https://container.googleapis.com/v1/projects/<projectID>/locations/<location>/clusters/<name>.
C16_ShortNameNeedsHints ==
  (inputs.method = "getCluster" /\ ShortName(inputs.arg)) =>
     /\ ~Truthy(client.projectID) =>
           /\ calls = <<>> /\ pc \in {"call", "done"}
           /\ pc = "done" => /\ ~Result.ok
                             /\ includes(Result.err, "\"project_id\"")
                             /\ ~includes(Result.err, "\"location\"")
     /\ (Truthy(client.projectID) /\ ~Truthy(client.location)) =>
           /\ calls = <<>> /\ pc \in {"call", "done"}
           /\ pc = "done" => /\ ~Result.ok
                             /\ includes(Result.err, "\"location\"")
                             /\ ~includes(Result.err, "\"project_id\"")
     /\ (Truthy(client.projectID) /\ Truthy(client.location) /\ pc # "call") =>
           /\ Len(calls) = 1
           /\ calls[1].api = "container.get"
           /\ calls[1].url = "https://container.googleapis.com/v1/projects/"
                             \o Get(client.projectID) \o "/locations/" \o Get(client.location)
                             \o "/clusters/" \o trim(inputs.arg)

\* C16 witness: a short name on a client with a project ID and no location
\* was rejected with the location error, nothing requested.
C16_Witness ==
  /\ Called("getCluster") /\ inputs.arg = "my-cluster"
  /\ client = [projectID |-> Some("foo"), location |-> None]
  /\ ~Result.ok /\ includes(Result.err, "\"location\"")
  /\ calls = <<>>

\* s is a non-empty string of decimal digits
RECURSIVE IsNumber(_)
IsNumber(s) ==
  /\ Len(s) > 0
  /\ Head(s) \in {"0", "1", "2", "3", "4", "5", "6", "7", "8", "9"}
  /\ (Len(s) > 1 => IsNumber(Tail(s)))

\* s is projects/<number>
OfProjectForm(s) ==
  /\ Len(s) > Len("projects/")
  /\ SubSeq(s, 1, Len("projects/")) = "projects/"
  /\ IsNumber(SubSeq(s, Len("projects/") + 1, Len(s)))

\* C17 (as stated): when the lookup answers with the name
\* projects/<number> projectIDtoNum returns <number>, and for every other
\* name (no prefix, empty number, other text around the reference) it
\* fails with a parse error.
C17_NumberOrParseError ==
  (Called("projectIDtoNum") /\ IsSome(locals.projectRef)) =>
     IF OfProjectForm(ProjectRef)
     THEN Result = Ok(SubSeq(ProjectRef, Len("projects/") + 1, Len(ProjectRef)))
     ELSE ~Result.ok /\ includes(Result.err, "Failed to parse project number")

----------------------------------------------------------------------------
(* Claims about the defaults, the endpoint and the exports of run, checked *)
(* under SpecRun.                                                          *)

\* the inputs pass every test of run that precedes the choice of the
\* project ID: the parsers, the both-flags test and the workspace test
PassesValidation(parsed) ==
  /\ Truthy(inputs.GITHUB_WORKSPACE)
  /\ InternalIPInput.ok /\ ConnectGatewayInput.ok
  /\ ~BothModes
  /\ parseBoolean(getInput(inputs, "use_auth_provider")).ok
  /\ parsed.ok

\* the project ID and the location the claim expects ("" when none)
ExpectedProject(parsed) ==
  IF getInput(inputs, "project_id") # "" THEN getInput(inputs, "project_id")
  ELSE IF parsed.val.projectID # "" THEN parsed.val.projectID
  ELSE IF IsSome(inputs.GCLOUD_PROJECT) THEN Get(inputs.GCLOUD_PROJECT)
  ELSE ""
ExpectedLocation(parsed) ==
  IF getInput(inputs, "location") # "" THEN getInput(inputs, "location")
  ELSE parsed.val.location

\* the defaults of a run whose cluster_name parsed to `parsed`, with the
\* expected project ID and location
DefaultsUsed(parsed, project, location) ==
  /\ project = "" =>
        /\ calls = <<>> /\ pc \in {"run", "done"}
        /\ pc = "done" => includes(failures[1], "failed to extract project ID")
  /\ (project # "" /\ location = "") =>
        /\ calls = <<>> /\ pc \in {"run", "done"}
        /\ pc = "done" => includes(failures[1], "failed to extract location")
  /\ (project # "" /\ location # "" /\ calls # <<>>) =>
        /\ client = [projectID |-> Some(project), location |-> Some(location)]
        /\ calls[1].api = "container.get"
        /\ calls[1].url = "https://container.googleapis.com/v1/projects/" \o project
                          \o "/locations/" \o location \o "/clusters/" \o parsed.val.id

\* C18: the project ID used is the project_id input, else the project of
\* the parsed cluster name, else $GCLOUD_PROJECT, else the run fails; the
\* location used is the location input, else the location of the parsed
\* name, else the run fails; both failures come before any request.
C18_DerivedDefaults ==
  LET parsed == parseResourceName(inputs.cluster_name)
  IN PassesValidation(parsed) =>
        DefaultsUsed(parsed, ExpectedProject(parsed), ExpectedLocation(parsed))

\* C18 witness: no project_id input and a short cluster name, so the
\* project came from $GCLOUD_PROJECT, and the cluster was requested there.
C18_Witness ==
  /\ inputs.project_id = "" /\ inputs.cluster_name = "c1" /\ inputs.location = "l1"
  /\ inputs.GCLOUD_PROJECT = Some("env-project")
  /\ Len(calls) >= 1
  /\ calls[1].url = "https://container.googleapis.com/v1/projects/env-project/locations/l1/clusters/c1"

\* the run has ended without a failure
Succeeded == pc = "done" /\ failures = <<>>
DNSInput == parseBoolean(getInput(inputs, "use_dns_based_endpoint"))

\* C19 (as stated): when use_dns_based_endpoint is true and neither the
\* internal IP nor the connect gateway is requested, the server of the
\* written kubeconfig is the cluster's DNS-based control-plane endpoint.
C19_DNSInputHonoured ==
  (Succeeded /\ DNSInput.ok /\ DNSInput.val
     /\ ~InternalIPInput.val /\ ~ConnectGatewayInput.val) =>
     \A f \in files :
        f.content.clusters[1].cluster["server"]
           = "https://" \o locals.clusterData.controlPlaneEndpointsConfig.dnsEndpointConfig.endpoint

\* C20: after a successful run KUBECONFIG, KUBE_CONFIG_PATH and the output
\* kubeconfig_path are all set to one value, the path of the one file
\* written by this run, which holds the synthesized document.
C20_ExportsNameWrittenFile ==
  Succeeded =>
     /\ DOMAIN env = {"KUBECONFIG", "KUBE_CONFIG_PATH"}
     /\ DOMAIN outputs = {"kubeconfig_path"}
     /\ env["KUBECONFIG"] = env["KUBE_CONFIG_PATH"]
     /\ env["KUBECONFIG"] = outputs["kubeconfig_path"]
     /\ Cardinality(files) = 1
     /\ \A f \in files : /\ f.path = env["KUBECONFIG"]
                         /\ f.content = locals.kubeConfig
                         /\ f.content["kind"] = "Config"
     /\ \E random \in RandomFilenames :
          env["KUBECONFIG"] = Get(inputs.GITHUB_WORKSPACE) \o "/gha-kubeconfig-" \o random

\* C20 witness: a successful gateway-mode run whose file is exported.
C20_Witness ==
  /\ Succeeded
  /\ Len(calls) >= 4
  /\ env["KUBECONFIG"] = "/ws/gha-kubeconfig-9f8e7d6c"
  /\ outputs["kubeconfig_path"] = "/ws/gha-kubeconfig-9f8e7d6c"
  /\ \E f \in files : f.path = "/ws/gha-kubeconfig-9f8e7d6c"

----------------------------------------------------------------------------
(* Claims about the requests of a run, checked under SpecRun.              *)

\* the positions of the requests of one kind in the log
CallsOf(api) == {i \in 1..Len(calls) : calls[i].api = api}
UseConnectGateway == ConnectGatewayInput.ok /\ ConnectGatewayInput.val
FleetMembershipInput == presence(Some(getInput(inputs, "fleet_membership_name")))

\* C21: the membership LIST is requested only in gateway mode with an empty
\* fleet_membership_name; with an explicit fleet_membership_name there is
\* never a LIST and the membership GET names that membership; without
\* gateway mode there is no fleet-hub and no resource-manager request.
C21_DiscoveryOnlyWhenNeeded ==
  /\ CallsOf("hub.list") # {} => (UseConnectGateway /\ ~IsSome(FleetMembershipInput))
  /\ IsSome(FleetMembershipInput) =>
        /\ CallsOf("hub.list") = {}
        /\ \A i \in CallsOf("hub.get") :
             calls[i].url = "https://gkehub.googleapis.com/v1/" \o Get(FleetMembershipInput)
  /\ ~UseConnectGateway =>
        CallsOf("hub.list") \cup CallsOf("hub.get") \cup CallsOf("crm.get") = {}

\* C21 witness: a gateway-mode run with an explicit membership that went
\* from the cluster GET straight to the GET of that membership.
C21_Witness ==
  /\ UseConnectGateway
  /\ inputs.fleet_membership_name = "projects/p2/locations/global/memberships/m1"
  /\ Len(calls) >= 2
  /\ calls[2].api = "hub.get"
  /\ calls[2].url = "https://gkehub.googleapis.com/v1/projects/p2/locations/global/memberships/m1"

\* the context name a run whose cluster_name parsed to `parsed` is expected
\* to use
ExpectedContext(parsed) ==
  IF getInput(inputs, "context_name") # "" THEN inputs.context_name
  ELSE "gke_" \o ExpectedProject(parsed) \o "_" \o ExpectedLocation(parsed)
       \o "_" \o parsed.val.id

\* C22: with an empty context_name the document's contexts[0].name and
\* current-context are gke_<project>_<location>_<cluster>, from the
\* resolved project ID and location and the id of the parsed cluster_name;
\* a given context_name is used unchanged.
C22_ContextName ==
  Succeeded =>
     \A f \in files :
        /\ f.content["current-context"] = ExpectedContext(parseResourceName(inputs.cluster_name))
        /\ f.content.contexts[1].name = f.content["current-context"]

\* C22 witness: a full cluster name with another project_id and no
\* context_name: the context is named after the input's project.
C22_Witness ==
  /\ Succeeded
  /\ inputs.context_name = "" /\ inputs.project_id = "p1" /\ inputs.location = ""
  /\ inputs.cluster_name = "projects/p2/locations/l2/clusters/c2"
  /\ \E f \in files : f.content["current-context"] = "gke_p1_l2_c2"

\* C24: the file of a successful run lies directly in $GITHUB_WORKSPACE and
\* has mode 0600, with the token and with the auth provider.
C24_SecureFileInWorkspace ==
  Succeeded =>
     /\ files # {}
     /\ \A f \in files :
          /\ f.mode = 6 * 64
          /\ LET dir == Get(inputs.GITHUB_WORKSPACE) \o "/"
             IN /\ Len(f.path) > Len(dir)
                /\ SubSeq(f.path, 1, Len(dir)) = dir
                /\ ~HasSlash(SubSeq(f.path, Len(dir) + 1, Len(f.path)))

\* C24 witness: a successful run with the auth provider wrote its file.
C24_Witness ==
  /\ Succeeded
  /\ inputs.use_auth_provider = "true"
  /\ \E f \in files : f.mode = 384 /\ f.path = "/ws/gha-kubeconfig-0a1b2c3d"

\* the place of each kind of request in the order of a run
Rank(api) ==
  CASE api = "container.get" -> 1
    [] api = "hub.list" -> 2
    [] api = "hub.get" -> 3
    [] api = "crm.get" -> 4
    [] api = "token" -> 5

\* C25: the steps of a run come in the order parse, cluster GET,
\* membership LIST, membership GET, project GET, token, document, file,
\* each after the previous one has settled successfully, the gateway steps
\* in gateway mode only; at most one request is in flight at any time.
C25_SequentialSteps ==
  /\ Cardinality(inflight) <= 1
  /\ inflight \subseteq {Len(calls)}
  /\ failures # <<>> => inflight = {}
  /\ calls # <<>> =>
        /\ parseResourceName(inputs.cluster_name).ok
        /\ calls[1].api = "container.get"
  /\ \A i \in 1..(Len(calls) - 1) : Rank(calls[i].api) < Rank(calls[i + 1].api)
  /\ \A i \in CallsOf("crm.get") : i > 1 /\ calls[i - 1].api = "hub.get"
  /\ \A i \in CallsOf("token") :
        IF UseConnectGateway THEN calls[i - 1].api = "crm.get"
        ELSE calls[i - 1].api = "container.get"
  /\ ReachedWrite => (CallsOf("token") # {} /\ inflight = {})
  /\ files # {} => (ReachedWrite /\ \A f \in files : f.content = locals.kubeConfig)

\* C25 witness: a run that discovered its membership and wrote its file
\* after five requests.
C25_Witness ==
  /\ Succeeded
  /\ Len(calls) = 5
  /\ calls[2].api = "hub.list"
  /\ files # {}

----------------------------------------------------------------------------
(* Further claims about createKubeConfig (SpecKube), about                 *)
(* discoverClusterMembership (SpecDiscover) and about run (SpecRun).       *)

\* C23: in every returned document current-context is the supplied
\* contextName and contexts[0].name, and clusters[0].name, users[0].name,
\* contexts[0].context.cluster and contexts[0].context.user are all
\* clusterData.name.
C23_NamesAgree ==
  Returned =>
     /\ Doc["current-context"] = inputs.contextName
     /\ Doc.contexts[1].name = inputs.contextName
     /\ Len(Doc.clusters) = 1 /\ Len(Doc.users) = 1 /\ Len(Doc.contexts) = 1
     /\ Doc.clusters[1].name = inputs.clusterData.name
     /\ Doc.users[1].name = inputs.clusterData.name
     /\ ContextMap["cluster"] = inputs.clusterData.name
     /\ ContextMap["user"] = inputs.clusterData.name

\* C23 witness: a returned document for the private cluster whose context
\* refers to the entries named private-cluster.
C23_Witness ==
  /\ Returned
  /\ inputs.clusterData = privateCluster
  /\ Doc.users[1].name = "private-cluster"
  /\ ContextMap["user"] = "private-cluster"
  /\ Doc["current-context"] = "ctx1"

\* C30 (as stated): every returned document has a server with a non-empty
\* endpoint after "https://"; a call whose selected endpoint is empty
\* fails instead.
C30_ServerHasHost ==
  Returned =>
     /\ Len(Server) > Len("https://")
     /\ SubSeq(Server, 1, Len("https://")) = "https://"

\* C28: on a client without a project ID discoverClusterMembership fails,
\* for a short name and for a full resource name, and never issues the
\* membership LIST.
C28_DiscoverNeedsProject ==
  ~Truthy(client.projectID) =>
     /\ calls = <<>>
     /\ pc \in {"discoverClusterMembership", "done"}
     /\ pc = "done" => ~Get(ret).ok

\* C28 witness: a full resource name on a client without a project ID was
\* rejected by the project ID test of the discovery itself.
C28_Witness ==
  /\ pc = "done"
  /\ inputs.clusterName = "projects/p/locations/l/clusters/c"
  /\ client.projectID = None
  /\ ~Get(ret).ok
  /\ includes(Get(ret).err, "cluster membership discovery")
  /\ calls = <<>>

C27_NoRetryAtAll ==
  /\ \A api \in {"container.get", "hub.list", "hub.get", "crm.get"} :
        Cardinality(CallsOf(api)) <= 1
  /\ \A i \in 1..Len(calls) : calls[i].api # "token" => ~calls[i].retry

\* the run failed with the rejection of a request
RequestFailed ==
  /\ Failed
  /\ \E e \in RequestErrors : includes(failures[1], e)

\* C27 (amended): the client issues each kind of request at most once in a
\* run and never re-issues one, but every request carries retry: true, so
\* retrying is delegated to the transport; a request that is finally
\* rejected ends the run as its failure, with no request after it.
C27_RetryDelegated ==
  /\ \A api \in {"container.get", "hub.list", "hub.get", "crm.get"} :
        Cardinality(CallsOf(api)) <= 1
  /\ \A i \in 1..Len(calls) : calls[i].api # "token" => calls[i].retry
  /\ RequestFailed =>
        /\ Len(failures) = 1
        /\ calls[Len(calls)].api # "token"
        /\ inflight = {} /\ files = {}

\* C27 witness: the project GET of a gateway-mode run was rejected and the
\* run ended there, after one request of each kind.
C27_Witness ==
  /\ RequestFailed
  /\ Len(calls) = 4
  /\ calls[4].api = "crm.get" /\ calls[4].retry

----------------------------------------------------------------------------
(* Termination of run: every request and the file write eventually settle. *)

\* the positions of run between two awaits
RunPositions ==
  {"run", "awaitCluster", "awaitList", "awaitMembership", "awaitProject", "awaitToken",
   "awaitWrite", "done"}

\* an unfinished run moves on.  Every step of NextRun changes pc and one is
\* possible at every position but "done", so under [][NextRun]_vars a step
\* that changes pc is a step of NextRun.
Advance == pc # "done" /\ \E p \in RunPositions \ {pc} : pc' = p

\* every awaited request and the awaited file write eventually settle, by
\* resolving or by rejecting
SpecRunFair == InitRun /\ [][NextRun]_vars /\ WF_pc(Advance)

FailurePrefix == "google-github-actions/get-gke-credentials failed with: "

\* the two outcomes of a run
RunSuccess ==
  /\ failures = <<>>
  /\ files # {}
  /\ DOMAIN env = {"KUBECONFIG", "KUBE_CONFIG_PATH"}
  /\ DOMAIN outputs = {"kubeconfig_path"}
RunFailure ==
  /\ Len(failures) = 1
  /\ Len(failures[1]) >= Len(FailurePrefix)
  /\ SubSeq(failures[1], 1, Len(FailurePrefix)) = FailurePrefix
  /\ DOMAIN env = {}

====
